---------------------------- MODULE Spec2Model ----------------------------
(***************************************************************************)
(* Model of the in-memory saga log of scoot (package saga,                 *)
(* src/unnamed/part_000): a map from sagaId to a slice of sagaMessage,     *)
(* guarded by one sync.RWMutex, with the operations StartSaga, LogMessage  *)
(* and GetMessages called concurrently by several goroutines.              *)
(*                                                                         *)
(* Every call is two steps: the acquisition of the lock (Lock or RLock,    *)
(* enabled only when the mutex admits it, so a blocked caller is a caller  *)
(* whose step is not enabled), and the body up to the return.  The         *)
(* arguments of a call are chosen when its lock is taken.                  *)
(***************************************************************************)
EXTENDS Integers, Sequences, FiniteSets, TLC

\* ------------------------------------------------------------------ bounds
\* Total number of appends (StartSaga and LogMessage) that may return ok.
MaxMsgs == 3

\* The goroutines calling the log, the saga ids, the job blobs and the task
\* ids they use.
Procs == {"p1", "p2"}
JobIds == {"j1", "j2"}
Jobs == {"b1", "b2"}
TaskIds == {"t1"}

\* ------------------------------------------------------------- sagaMessage
\* The kinds of message LogMessage is called with (every kind but StartSaga,
\* which StartSaga itself writes).
LoggedMsgTypes ==
    {"EndSaga", "AbortSaga", "StartTask", "EndTask", "StartCompTask", "EndCompTask"}

\* The messages a caller hands to LogMessage.
LoggedMessages ==
    [sagaId : JobIds, msgType : {"EndSaga", "AbortSaga"}, taskId : {""}, data : {""}]
    \cup
    [sagaId : JobIds,
     msgType : {"StartTask", "EndTask", "StartCompTask", "EndCompTask"},
     taskId : TaskIds, data : {""}]

\* The first message of a saga: its id and the job blob.
StartSagaMessageFactory(sagaId, job) ==
    [sagaId |-> sagaId, msgType |-> "StartSaga", taskId |-> "", data |-> job]

\* error values; Nil is Go's nil error
Nil == "nil"
ErrNotStarted == "Saga is not Started yet."

\* a nil slice of messages
NilMsgs == << >>

NoArg == [sagaId |-> "", msgType |-> "", taskId |-> "", data |-> ""]
NoRet == [op |-> "", sagaId |-> "", err |-> Nil, msgs |-> NilMsgs]

VARIABLES
    sagas,   \* log.sagas: a function from the sagaIds in the map to their messages
    mutex,   \* log.mutex: w, whether it is write-locked; r, the number of read locks
    pc,      \* per goroutine: "idle", or the operation whose lock it holds
    arg,     \* per goroutine: the arguments of the call in progress
    ret,     \* per goroutine: what its last call returned (NoRet once it calls again)
    okLog    \* history: per sagaId, the messages whose append returned a nil error, in that order

sagaVars == <<sagas, mutex, pc, arg, ret, okLog>>

RECURSIVE SumLen(_, _)
SumLen(f, S) ==
    IF S = {} THEN 0
    ELSE LET j == CHOOSE x \in S : TRUE
         IN  Len(f[j]) + SumLen(f, S \ {j})

\* The number of appends that returned ok so far.
TotalOk == SumLen(okLog, JobIds)

\* ------------------------------------------------------ InMemorySagaFactory
SagaInit ==
    /\ sagas = << >>
    /\ mutex = [w |-> FALSE, r |-> 0]
    /\ pc = [p \in Procs |-> "idle"]
    /\ arg = [p \in Procs |-> NoArg]
    /\ ret = [p \in Procs |-> NoRet]
    /\ okLog = [j \in JobIds |-> << >>]

\* ------------------------------------------------------------------- mutex
CanLock == ~mutex.w /\ mutex.r = 0
CanRLock == ~mutex.w

\* ------------------------------------------------------------- LogMessage
\* log.mutex.Lock() of LogMessage
LogMessageLock(p, msg) ==
    /\ pc[p] = "idle"
    /\ TotalOk < MaxMsgs
    /\ CanLock
    /\ mutex' = [mutex EXCEPT !.w = TRUE]
    /\ pc' = [pc EXCEPT ![p] = "LogMessage"]
    /\ arg' = [arg EXCEPT ![p] = msg]
    /\ ret' = [ret EXCEPT ![p] = NoRet]
    /\ UNCHANGED <<sagas, okLog>>

\* Mutant of AppendMsg: the new message is put in front of the slice.
AppendMsg_Prepend(msgs, msg) == <<msg>> \o msgs

\* append(msgs, msg)
AppendMsg(msgs, msg) == Append(msgs, msg)

\* Mutant of LogMessage: a message for a missing saga creates the entry
\* instead of being refused.
LogMessage_CreatesEntry(p) ==
    /\ pc[p] = "LogMessage"
    /\ LET msg == arg[p]
           sagaId == msg.sagaId
           msgs == IF sagaId \in DOMAIN sagas THEN sagas[sagaId] ELSE NilMsgs
       IN  /\ sagas' = [k \in DOMAIN sagas \cup {sagaId} |->
                           IF k = sagaId THEN Append(msgs, msg) ELSE sagas[k]]
           /\ mutex' = [mutex EXCEPT !.w = FALSE]
           /\ ret' = [ret EXCEPT ![p] =
                  [op |-> "LogMessage", sagaId |-> sagaId,
                   err |-> Nil, msgs |-> NilMsgs]]
           /\ okLog' = [okLog EXCEPT ![sagaId] = Append(@, msg)]
    /\ pc' = [pc EXCEPT ![p] = "idle"]
    /\ arg' = [arg EXCEPT ![p] = NoArg]

\* The body of LogMessage from the map lookup to the return.
LogMessage(p) ==
    /\ pc[p] = "LogMessage"
    /\ LET msg == arg[p]
           sagaId == msg.sagaId
           ok == sagaId \in DOMAIN sagas
       IN  IF ~ok
           THEN \* return with the lock still held
                /\ ret' = [ret EXCEPT ![p] =
                       [op |-> "LogMessage", sagaId |-> sagaId,
                        err |-> ErrNotStarted, msgs |-> NilMsgs]]
                /\ UNCHANGED <<sagas, mutex, okLog>>
           ELSE /\ sagas' = [sagas EXCEPT ![sagaId] = AppendMsg(sagas[sagaId], msg)]
                /\ mutex' = [mutex EXCEPT !.w = FALSE]
                /\ ret' = [ret EXCEPT ![p] =
                       [op |-> "LogMessage", sagaId |-> sagaId,
                        err |-> Nil, msgs |-> NilMsgs]]
                /\ okLog' = [okLog EXCEPT ![sagaId] = Append(@, msg)]
    /\ pc' = [pc EXCEPT ![p] = "idle"]
    /\ arg' = [arg EXCEPT ![p] = NoArg]

\* --------------------------------------------------------------- StartSaga
\* log.mutex.Lock() of StartSaga
StartSagaLock(p, sagaId, job) ==
    /\ pc[p] = "idle"
    /\ TotalOk < MaxMsgs
    /\ CanLock
    /\ mutex' = [mutex EXCEPT !.w = TRUE]
    /\ pc' = [pc EXCEPT ![p] = "StartSaga"]
    /\ arg' = [arg EXCEPT ![p] = [NoArg EXCEPT !.sagaId = sagaId, !.data = job]]
    /\ ret' = [ret EXCEPT ![p] = NoRet]
    /\ UNCHANGED <<sagas, okLog>>

\* Mutant of SetEntry: the map is replaced by one holding only the new entry.
SetEntry_Clobber(m, sagaId, msgs) == [k \in {sagaId} |-> msgs]

\* log.sagas[sagaId] = []sagaMessage{startMsg}: the map with that entry set
SetEntry(m, sagaId, msgs) ==
    [k \in DOMAIN m \cup {sagaId} |-> IF k = sagaId THEN msgs ELSE m[k]]

\* The body of StartSaga from the factory call to the return.
StartSaga(p) ==
    /\ pc[p] = "StartSaga"
    /\ LET sagaId == arg[p].sagaId
           startMsg == StartSagaMessageFactory(sagaId, arg[p].data)
       IN  /\ sagas' = SetEntry(sagas, sagaId, <<startMsg>>)
           /\ mutex' = [mutex EXCEPT !.w = FALSE]
           /\ ret' = [ret EXCEPT ![p] =
                  [op |-> "StartSaga", sagaId |-> sagaId,
                   err |-> Nil, msgs |-> NilMsgs]]
           /\ okLog' = [okLog EXCEPT ![sagaId] = Append(@, startMsg)]
    /\ pc' = [pc EXCEPT ![p] = "idle"]
    /\ arg' = [arg EXCEPT ![p] = NoArg]

\* ------------------------------------------------------------- GetMessages
\* log.mutex.RLock() of GetMessages
GetMessagesRLock(p, sagaId) ==
    /\ pc[p] = "idle"
    /\ CanRLock
    /\ mutex' = [mutex EXCEPT !.r = @ + 1]
    /\ pc' = [pc EXCEPT ![p] = "GetMessages"]
    /\ arg' = [arg EXCEPT ![p] = [NoArg EXCEPT !.sagaId = sagaId]]
    /\ ret' = [ret EXCEPT ![p] = NoRet]
    /\ UNCHANGED <<sagas, okLog>>

\* What GetMessages reads and returns for sagaId in map m: (msgs, nil) when
\* the key is present, (nil, nil) when it is not.
GetMessagesResult(m, sagaId) ==
    IF sagaId \in DOMAIN m
    THEN [op |-> "GetMessages", sagaId |-> sagaId, err |-> Nil, msgs |-> m[sagaId]]
    ELSE [op |-> "GetMessages", sagaId |-> sagaId, err |-> Nil, msgs |-> NilMsgs]

\* The body of GetMessages from the map lookup to the return.
GetMessages(p) ==
    /\ pc[p] = "GetMessages"
    /\ mutex' = [mutex EXCEPT !.r = @ - 1]
    /\ ret' = [ret EXCEPT ![p] = GetMessagesResult(sagas, arg[p].sagaId)]
    /\ pc' = [pc EXCEPT ![p] = "idle"]
    /\ arg' = [arg EXCEPT ![p] = NoArg]
    /\ UNCHANGED <<sagas, okLog>>


(***************************************************************************)
(* The worker server handler (package server, src/cloud/cluster/cluster.go *)
(* lines 145-308): Run, Abort, Erase and QueryWorker called concurrently   *)
(* by the RPC goroutines, the stats goroutine, and the runner.Service the  *)
(* handler drives.  h.mu guards timeLastRpc only; currentCmd and           *)
(* currentRunID are read and written without it.                           *)
(***************************************************************************)
\* Number of runs the runner starts.
MaxRuns == 2

\* The RPC goroutines and the argv values they send.
HProcs == {"c1", "c2"}
Argvs == {"A", "B"}
RunIDs == 1..MaxRuns

\* runners.QueueFullMsg, and the error of a Status, Abort on an unknown RunID
QueueFullMsg == "No resources available. Please try later."
UnknownRunMsg == "unknown run"
StatusAllErrMsg == "status all failed"

\* h.currentCmd == nil, and the zero RunID
NilCmd == "nil"
NoRunID == 0

\* run states of package runner
DoneStates == {"COMPLETE", "FAILED", "ABORTED"}
IsDone(state) == state \in DoneStates

\* the zero runner.RunStatus
ZeroStatus == [runID |-> NoRunID, state |-> "UNKNOWN", error |-> ""]

VARIABLES
    runs,          \* the runner: its runs in the order started, each [argv, state]
    hmu,           \* h.mu: whether it is locked
    timeLastRpc,   \* h.timeLastRpc: the goroutine whose RPC stamped it last
    currentCmd,    \* h.currentCmd: the argv of the command, or NilCmd
    currentRunID,  \* h.currentRunID
    hpc,           \* per RPC goroutine: its place in the handler
    hcmd,          \* per RPC goroutine: the argv of its Run
    hstatus,       \* per RPC goroutine: the local status
    herr,          \* per RPC goroutine: the local err
    hret,          \* what the RPC that returned last returned, and to which goroutine
    hqf,           \* history, per RPC goroutine: the run that was active when the runner
                   \* answered its Run with QueueFull, and that run's argv
    spc,           \* the stats goroutine: "wait" for a tick, or "sample" with h.mu held
    crashed        \* a goroutine panicked: the process is gone

handlerVars ==
    <<runs, hmu, timeLastRpc, currentCmd, currentRunID, hpc, hcmd, hstatus, herr,
      hret, hqf, spc, crashed>>

NoHqf == [runID |-> NoRunID, argv |-> ""]
NoHret == [proc |-> "", op |-> "", status |-> ZeroStatus, err |-> Nil]

\* NewHandler
HandlerInit ==
    /\ runs = << >>
    /\ hmu = FALSE
    /\ timeLastRpc = "zero"
    /\ currentCmd = NilCmd
    /\ currentRunID = NoRunID
    /\ hpc = [p \in HProcs |-> "idle"]
    /\ hcmd = [p \in HProcs |-> ""]
    /\ hstatus = [p \in HProcs |-> ZeroStatus]
    /\ herr = [p \in HProcs |-> Nil]
    /\ hret = NoHret
    /\ hqf = [p \in HProcs |-> NoHqf]
    /\ spc = "wait"
    /\ crashed = FALSE

\* ----------------------------------------------------------- runner.Service
\* The RunIDs of the runs that are not done.
ActiveRuns == {i \in 1..Len(runs) : runs[i].state = "RUNNING"}

\* The status the runner reports for run i.
StatusOf(rs, i) == [runID |-> i, state |-> rs[i].state, error |-> ""]

\* runner.Run: QueueFull while a run is not done, a new running run otherwise.
RunnerRun(rs, argv) ==
    IF \E i \in 1..Len(rs) : rs[i].state = "RUNNING"
    THEN [runs |-> rs, status |-> ZeroStatus, err |-> QueueFullMsg]
    ELSE LET rs2 == Append(rs, [argv |-> argv, state |-> "RUNNING"])
         IN  [runs |-> rs2, status |-> StatusOf(rs2, Len(rs2)), err |-> Nil]

\* runner.Status: the cached status of a run the runner knows.
RunnerStatus(rs, id) ==
    IF id \in 1..Len(rs) /\ rs[id].state # "ERASED"
    THEN [status |-> StatusOf(rs, id), err |-> Nil]
    ELSE [status |-> ZeroStatus, err |-> UnknownRunMsg]

\* runner.Abort: a run that is not done becomes ABORTED.
RunnerAbort(rs, id) ==
    IF id \in 1..Len(rs) /\ rs[id].state # "ERASED"
    THEN LET rs2 == IF rs[id].state = "RUNNING"
                    THEN [rs EXCEPT ![id].state = "ABORTED"] ELSE rs
         IN  [runs |-> rs2, status |-> StatusOf(rs2, id), err |-> Nil]
    ELSE [runs |-> rs, status |-> ZeroStatus, err |-> UnknownRunMsg]

\* runner.Erase: a done run is dropped from the cache.
RunnerErase(rs, id) ==
    IF id \in 1..Len(rs) /\ IsDone(rs[id].state)
    THEN [rs EXCEPT ![id].state = "ERASED"] ELSE rs

\* The process adapter ends the running command.
RunnerFinish(i, state) ==
    /\ ~crashed
    /\ i \in ActiveRuns
    /\ runs' = [runs EXCEPT ![i].state = state]
    /\ UNCHANGED <<hmu, timeLastRpc, currentCmd, currentRunID, hpc, hcmd, hstatus,
                   herr, hret, hqf, spc, crashed>>

\* ------------------------------------------------------------------ handler
\* h.updateTimeLastRpc() of the RPC of goroutine p: Lock, the assignment and
\* Unlock, taken when h.mu is free.
updateTimeLastRpc(p) ==
    /\ ~hmu
    /\ timeLastRpc' = p
    /\ UNCHANGED hmu

\* Run, lines 260-266: the RPC arrives with argv and stamps timeLastRpc.
RunCall(p, argv) ==
    /\ ~crashed
    /\ hpc[p] = "idle"
    /\ updateTimeLastRpc(p)
    /\ hpc' = [hpc EXCEPT ![p] = "Run_body"]
    /\ hcmd' = [hcmd EXCEPT ![p] = argv]
    /\ UNCHANGED <<runs, currentCmd, currentRunID, hstatus, herr, hret, hqf, spc, crashed>>

\* Run, line 267: status, err := h.run.Run(c)
RunRunner(p) ==
    /\ ~crashed
    /\ hpc[p] = "Run_body"
    /\ ActiveRuns # {} \/ Len(runs) < MaxRuns
    /\ LET r == RunnerRun(runs, hcmd[p])
       IN  /\ runs' = r.runs
           /\ hstatus' = [hstatus EXCEPT ![p] = r.status]
           /\ herr' = [herr EXCEPT ![p] = r.err]
           /\ hqf' = [hqf EXCEPT ![p] =
                  IF r.err = QueueFullMsg
                  THEN LET i == CHOOSE i \in ActiveRuns : TRUE
                       IN  [runID |-> i, argv |-> runs[i].argv]
                  ELSE NoHqf]
    /\ hpc' = [hpc EXCEPT ![p] = "Run_dup"]
    /\ UNCHANGED <<hmu, timeLastRpc, currentCmd, currentRunID, hcmd, hret, spc,
                   crashed>>

\* Run, line 270: the duplicate check.  h.currentCmd.Argv of a nil currentCmd
\* is a nil dereference: the goroutine panics.
RunDupCheck(p) ==
    /\ ~crashed
    /\ hpc[p] = "Run_dup"
    /\ IF herr[p] # Nil /\ herr[p] = QueueFullMsg
       THEN IF currentCmd = NilCmd
            THEN /\ hpc' = [hpc EXCEPT ![p] = "panic"]
                 /\ crashed' = TRUE
            ELSE /\ hpc' = [hpc EXCEPT ![p] =
                        IF hcmd[p] = currentCmd THEN "Run_status" ELSE "Run_set"]
                 /\ UNCHANGED crashed
       ELSE /\ hpc' = [hpc EXCEPT ![p] = "Run_set"]
            /\ UNCHANGED crashed
    /\ UNCHANGED <<runs, hmu, timeLastRpc, currentCmd, currentRunID, hcmd, hstatus,
                   herr, hret, hqf, spc>>

\* Run, line 272: status, err = h.run.Status(h.currentRunID)
RunDupStatus(p) ==
    /\ ~crashed
    /\ hpc[p] = "Run_status"
    /\ LET r == RunnerStatus(runs, currentRunID)
       IN  /\ hstatus' = [hstatus EXCEPT ![p] = r.status]
           /\ herr' = [herr EXCEPT ![p] = r.err]
    /\ hpc' = [hpc EXCEPT ![p] = "Run_set"]
    /\ UNCHANGED <<runs, hmu, timeLastRpc, currentCmd, currentRunID, hcmd, hret,
                   hqf, spc, crashed>>

\* The return of an RPC: the thrift status goes to the caller and the
\* goroutine's locals are gone.
HandlerReturn(p, op, status) ==
    /\ hret' = [proc |-> p, op |-> op, status |-> status, err |-> Nil]
    /\ hpc' = [hpc EXCEPT ![p] = "idle"]
    /\ hcmd' = [hcmd EXCEPT ![p] = ""]
    /\ hstatus' = [hstatus EXCEPT ![p] = ZeroStatus]
    /\ herr' = [herr EXCEPT ![p] = Nil]
    /\ hqf' = [hqf EXCEPT ![p] = NoHqf]

\* Run, lines 274-279: the error becomes a BADREQUEST status and the call
\* returns, or h.currentCmd = c.
RunSetCmd(p) ==
    /\ ~crashed
    /\ hpc[p] = "Run_set"
    /\ IF herr[p] # Nil
       THEN /\ HandlerReturn(p, "Run",
                   [hstatus[p] EXCEPT !.error = herr[p], !.state = "BADREQUEST"])
            /\ UNCHANGED currentCmd
       ELSE /\ currentCmd' = hcmd[p]
            /\ hpc' = [hpc EXCEPT ![p] = "Run_setid"]
            /\ UNCHANGED <<hret, hcmd, hstatus, herr, hqf>>
    /\ UNCHANGED <<runs, hmu, timeLastRpc, currentRunID, spc, crashed>>

\* Run, lines 280-283: h.currentRunID = status.RunID and the return.
RunSetRunID(p) ==
    /\ ~crashed
    /\ hpc[p] = "Run_setid"
    /\ currentRunID' = hstatus[p].runID
    /\ HandlerReturn(p, "Run", hstatus[p])
    /\ UNCHANGED <<runs, hmu, timeLastRpc, currentCmd, spc, crashed>>

\* Abort, lines 287-298
Abort(p, runId) ==
    /\ ~crashed
    /\ hpc[p] = "idle"
    /\ updateTimeLastRpc(p)
    /\ LET r == RunnerAbort(runs, runId)
       IN  /\ runs' = r.runs
           /\ HandlerReturn(p, "Abort",
                  IF r.err # Nil
                  THEN [runID |-> runId, state |-> "UNKNOWN", error |-> r.err]
                  ELSE r.status)
    /\ UNCHANGED <<currentCmd, currentRunID, spc, crashed>>

\* Erase, lines 302-308
Erase(p, runId) ==
    /\ ~crashed
    /\ hpc[p] = "idle"
    /\ updateTimeLastRpc(p)
    /\ runs' = RunnerErase(runs, runId)
    /\ HandlerReturn(p, "Erase", ZeroStatus)
    /\ UNCHANGED <<currentCmd, currentRunID, spc, crashed>>

\* QueryWorker, lines 238-257: StatusAll answers (ok) or fails; a failure is
\* returned as one UNKNOWN status and a nil error.
QueryWorker(p, ok) ==
    /\ ~crashed
    /\ hpc[p] = "idle"
    /\ updateTimeLastRpc(p)
    /\ HandlerReturn(p, "QueryWorker",
           IF ok THEN ZeroStatus ELSE [ZeroStatus EXCEPT !.error = StatusAllErrMsg])
    /\ UNCHANGED <<runs, currentCmd, currentRunID, spc, crashed>>

\* ------------------------------------------------------------------- stats
\* stats, lines 200-201: a tick arrives and h.mu.Lock() is taken.
StatsTick ==
    /\ ~crashed
    /\ spc = "wait"
    /\ ~hmu
    /\ hmu' = TRUE
    /\ spc' = "sample"
    /\ UNCHANGED <<runs, timeLastRpc, currentCmd, currentRunID, hpc, hcmd, hstatus,
                   herr, hret, hqf, crashed>>

\* stats, lines 204-225: StatusAll answers (ok) or fails.  On a failure the
\* loop continues with h.mu still locked; otherwise the gauges are handed to
\* the stats receiver and h.mu is unlocked.
StatsSample(ok) ==
    /\ ~crashed
    /\ spc = "sample"
    /\ hmu' = IF ~ok THEN hmu ELSE FALSE
    /\ spc' = "wait"
    /\ UNCHANGED <<runs, timeLastRpc, currentCmd, currentRunID, hpc, hcmd, hstatus,
                   herr, hret, hqf, crashed>>

(***************************************************************************)
(* The Bazel execution server (src/bazel/execution/service.go): Execute    *)
(* called concurrently by the gRPC goroutines, and the scheduler it hands  *)
(* jobs to.  A request is the nil request or carries an Action, of which   *)
(* the model keeps whether the command digest and the input root digest    *)
(* are valid and the timeout in ms.                                        *)
(***************************************************************************)
\* Number of ScheduleJob calls the scheduler takes.
MaxSched == 2

\* The gRPC goroutines, and the requests they send.
EProcs == {"e1", "e2"}
NilReq == [isNil |-> TRUE]
Timeouts == {-1, 1}
ExecRequests ==
    {NilReq} \cup [isNil : {FALSE}, cmdOk : BOOLEAN, inputOk : BOOLEAN, timeout : Timeouts]

\* The errors of Execute, by the place that returns them.
ErrNotInitialized == "Server not initialized"
ErrSerializing == "Error serializing action"
ErrConverting == "Error converting request to internal definition"
ErrJobInvalid == "Internal job definition invalid"
ErrSchedule == "Failed to schedule Scoot job"
ErrNilRequest == "Unexpected nil execute request"
ErrCmdDigest == "Request action command digest is invalid"
ErrInputDigest == "Request action input root digest is invalid"
ErrValidateJob == "invalid job"

\* The zero sched.JobDefinition, and sched.P0
NoJob == [priority |-> "", tasks |-> << >>]
P0 == "P0"
Priorities == {"P0", "P1", "P2", "P3"}

VARIABLES
    scheduler,   \* s.scheduler: "unmade" before MakeExecutionServer, then "nil" or "set"
    epc,         \* per gRPC goroutine: its place in Execute
    ereq,        \* per gRPC goroutine: req
    ejob,        \* per gRPC goroutine: job
    eret,        \* per gRPC goroutine: what its last Execute returned
    schedCalls   \* the scheduler: the jobs ScheduleJob was called with, in order,
                 \* each with the request it was made from

execVars == <<scheduler, epc, ereq, ejob, eret, schedCalls>>

NoEret == [op |-> "", err |-> Nil]

ExecInit ==
    /\ scheduler = "unmade"
    /\ epc = [p \in EProcs |-> "idle"]
    /\ ereq = [p \in EProcs |-> NilReq]
    /\ ejob = [p \in EProcs |-> NoJob]
    /\ eret = [p \in EProcs |-> NoEret]
    /\ schedCalls = << >>

\* MakeExecutionServer(l, s), lines 37-41: s is a scheduler or nil.
MakeExecutionServer(s) ==
    /\ scheduler = "unmade"
    /\ scheduler' = s
    /\ UNCHANGED <<epc, ereq, ejob, eret, schedCalls>>

\* IsInitialized, lines 43-50
IsInitialized == scheduler # "nil"

\* bazel.IsValidDigest of the command digest and of the input root digest.
IsValidCmdDigest(req) == req.cmdOk
IsValidInputDigest(req) == req.inputOk

\* bazel.DigestSnapshotID: a well-formed snapshot id of a valid digest.
DigestSnapshotID(req) == IF req.inputOk THEN "bz-digest" ELSE "bz-"

\* validateExecRequest, lines 166-179: Nil or the error.
validateExecRequest(req) ==
    IF req = NilReq THEN ErrNilRequest
    ELSE IF ~IsValidCmdDigest(req) THEN ErrCmdDigest
    ELSE IF ~IsValidInputDigest(req) THEN ErrInputDigest
    ELSE Nil

\* execReqToScoot, lines 136-164: the job of one placeholder task and a nil
\* error, or the zero job and the error of validateExecRequest.  The parse of
\* "<ms>ms" succeeds for every integer ms.
execReqToScoot(req) ==
    LET err == validateExecRequest(req)
    IN  IF err # Nil THEN [job |-> NoJob, err |-> err]
        ELSE [job |-> [priority |-> P0,
                       tasks |-> << [taskID |-> "Bazel_ExecuteRequest",
                                     argv |-> << "BZ_PLACEHOLDER" >>,
                                     timeout |-> req.timeout,
                                     snapshotID |-> DigestSnapshotID(req)] >>],
              err |-> Nil]

\* sched.ValidateJob: no task, two tasks of one id, a task without argv, a
\* negative timeout, an unknown priority or a malformed snapshot id is
\* rejected.
ValidateJob(job) ==
    IF \/ Len(job.tasks) = 0
       \/ \E i, j \in 1..Len(job.tasks) : i # j /\ job.tasks[i].taskID = job.tasks[j].taskID
       \/ \E i \in 1..Len(job.tasks) :
             \/ Len(job.tasks[i].argv) = 0
             \/ job.tasks[i].timeout < 0
             \/ job.tasks[i].snapshotID = "bz-"
       \/ job.priority \notin Priorities
    THEN ErrValidateJob
    ELSE Nil

\* The return of Execute.
ExecuteReturn(p, err) ==
    /\ eret' = [eret EXCEPT ![p] = [op |-> "Execute", err |-> err]]
    /\ epc' = [epc EXCEPT ![p] = "idle"]
    /\ ereq' = [ereq EXCEPT ![p] = NilReq]
    /\ ejob' = [ejob EXCEPT ![p] = NoJob]

\* Execute, lines 62-76: the call arrives with req; the server is not
\* initialized, or GetSha256 of the action fails (~shaOk), or the call goes on.
ExecuteCall(p, req, shaOk) ==
    /\ scheduler # "unmade"
    /\ epc[p] = "idle"
    /\ IF ~IsInitialized THEN ExecuteReturn(p, ErrNotInitialized)
       ELSE IF ~shaOk THEN ExecuteReturn(p, ErrSerializing)
       ELSE /\ epc' = [epc EXCEPT ![p] = "convert"]
            /\ ereq' = [ereq EXCEPT ![p] = req]
            /\ eret' = [eret EXCEPT ![p] = NoEret]
            /\ UNCHANGED ejob
    /\ UNCHANGED <<scheduler, schedCalls>>

\* Execute, lines 79-83: job, err := execReqToScoot(req, actionSha)
ExecuteConvert(p) ==
    /\ epc[p] = "convert"
    /\ LET r == execReqToScoot(ereq[p])
       IN  IF r.err # Nil THEN ExecuteReturn(p, ErrConverting)
           ELSE /\ ejob' = [ejob EXCEPT ![p] = r.job]
                /\ epc' = [epc EXCEPT ![p] = "validate"]
                /\ UNCHANGED <<ereq, eret>>
    /\ UNCHANGED <<scheduler, schedCalls>>

\* Execute, lines 85-89: err = sched.ValidateJob(job)
ExecuteValidate_ErrIgnored(p) ==
    /\ epc[p] = "validate"
    /\ epc' = [epc EXCEPT ![p] = "schedule"]
    /\ UNCHANGED <<ereq, ejob, eret>>
    /\ UNCHANGED <<scheduler, schedCalls>>

ExecuteValidate(p) ==
    /\ epc[p] = "validate"
    /\ IF ValidateJob(ejob[p]) # Nil THEN ExecuteReturn(p, ErrJobInvalid)
       ELSE /\ epc' = [epc EXCEPT ![p] = "schedule"]
            /\ UNCHANGED <<ereq, ejob, eret>>
    /\ UNCHANGED <<scheduler, schedCalls>>

\* Execute, lines 91-132: id, err := s.scheduler.ScheduleJob(job), which
\* answers with an id (ok) or an error, and the return of the operation.
ExecuteSchedule(p, ok) ==
    /\ epc[p] = "schedule"
    /\ Len(schedCalls) < MaxSched
    /\ schedCalls' = Append(schedCalls, [req |-> ereq[p], job |-> ejob[p]])
    /\ ExecuteReturn(p, IF ok THEN Nil ELSE ErrSchedule)
    /\ UNCHANGED scheduler

(***************************************************************************)
(* The cluster view (src/cloud/cluster/cluster.go, package cluster, lines  *)
(* 1-143): the loop goroutine, the owner of the input channel, the clients *)
(* whose Members, Subscribe and unsubscribe requests the loop takes from   *)
(* c.reqCh, and Close, which runs in its caller's goroutine.  A node is    *)
(* its NodeId.  c.subs is a slice: a header (backing array, length) over   *)
(* arrays that removals change in place.                                   *)
(***************************************************************************)
\* Number of ingests the view takes, and of subscriptions it hands out.
MaxIngests == 2
MaxSubs == 3

NodeIds == {1, 2}
ChanIds == 1..MaxSubs

\* The nil channel, and the nil slice.
NoChan == 0
NilSlice == [arr |-> 0, len |-> 0]
NoRange == [arr |-> 0, len |-> 0, i |-> 0]

\* NodeUpdate
Added(n) == [type |-> "Added", id |-> n]
Removed(n) == [type |-> "Removed", id |-> n]
NodeUpdates == {Added(n) : n \in NodeIds} \cup {Removed(n) : n \in NodeIds}

\* The []NodeUpdate values: batches of up to two updates.
UpdateBatches ==
    {<< >>} \cup {<<u>> : u \in NodeUpdates}
           \cup {<<u, v>> : u \in NodeUpdates, v \in NodeUpdates}

\* What the owner sends on c.ch, an interface{}: a []Node, a []NodeUpdate, or
\* a value of another type.
Ingests ==
    {[kind |-> "nodes", nodes |-> S, updates |-> << >>] : S \in SUBSET NodeIds}
    \cup {[kind |-> "updates", nodes |-> {}, updates |-> us] : us \in UpdateBatches}
    \cup {[kind |-> "other", nodes |-> {}, updates |-> << >>]}

\* The ids of S in ascending order (sort.Sort(NodeSorter(r))).
RECURSIVE SortedSeq(_)
SortedSeq(S) ==
    IF S = {} THEN << >>
    ELSE LET m == CHOOSE x \in S : \A y \in S : x <= y
         IN  <<m>> \o SortedSeq(S \ {m})

\* One update applied to a membership, and a batch applied in order.
ApplyUpdate(S, u) == IF u.type = "Added" THEN S \cup {u.id} ELSE S \ {u.id}

RECURSIVE ApplyAll(_, _)
ApplyAll(S, us) ==
    IF us = << >> THEN S ELSE ApplyAll(ApplyUpdate(S, Head(us)), Tail(us))

\* The delta from old to new: removals, then additions, each by NodeId.
Diff(old, new) ==
    LET rem == SortedSeq(old \ new)
        add == SortedSeq(new \ old)
    IN  [i \in 1..Len(rem) |-> Removed(rem[i])] \o [i \in 1..Len(add) |-> Added(add[i])]

\* State.FilterAndUpdate: the updates are applied in order, and those that
\* changed the membership are the delta that is sent out.
\* Mutant of FilterAndUpdate: the delta is the difference of the membership.
FilterAndUpdate_Diff(S, updates) ==
    LET new == ApplyAll(S, updates) IN [nodes |-> new, outgoing |-> Diff(S, new)]

RECURSIVE FilterAndUpdate(_, _)
FilterAndUpdate(S, updates) ==
    IF updates = << >> THEN [nodes |-> S, outgoing |-> << >>]
    ELSE LET u == Head(updates)
             new == ApplyUpdate(S, u)
             r == FilterAndUpdate(new, Tail(updates))
         IN  [nodes |-> r.nodes,
              outgoing |-> IF new # S THEN <<u>> \o r.outgoing ELSE r.outgoing]

\* State.SetAndDiff: the membership is replaced, and the difference is the
\* delta that is sent out.
SetAndDiff(S, ns) == [nodes |-> ns, outgoing |-> Diff(S, ns)]

VARIABLES
    nodes,      \* c.State.Nodes
    cch,        \* c.ch: "open", "closed" by its owner, "nil" once the loop saw that
    reqCh,      \* c.reqCh: "open", "closed" by Close, "nil" once the loop saw that
    subsArr,    \* the backing arrays of c.subs, each as long as its capacity
    subs,       \* c.subs: [arr, len], arr 0 for the nil slice
    chans,      \* per subscriber channel: "none" before make, "open", "closed"
    lpc,        \* the loop goroutine: "select", "send", "exit", "panic"
    lrange,     \* the loop's range over c.subs at line 73: [arr, len, i]
    outgoing,   \* the loop's outgoing
    ingestNo,   \* history: the number of ingests taken
    kpc,        \* Close: "idle", "range", "setnil", "closeReq", "done", "panic"
    krange,     \* Close's range over c.subs at line 46: [arr, len, i]
    view,       \* history, per subscriber whose channel is open: the initial
                \* members with the deltas it received folded onto them
    seen,       \* history, per subscriber whose channel is open: the ingest
                \* its stream is at
    lprev,      \* history: the membership before the ingest being sent out
    pend,       \* per subscriber: its closeSubscription call: "no", or "panic"
                \* when its send on c.reqCh panicked
    mret        \* history: what Members() returned, if the last step was the
                \* handleReq of a Members() request; NoMembers otherwise

clusterVars ==
    <<nodes, cch, reqCh, subsArr, subs, chans, lpc, lrange, outgoing, ingestNo,
      kpc, krange, view, seen, lprev, pend, mret>>

\* No Members() reply: a value no c.current() has.
NoMembers == <<0>>

\* NewCluster(state, ch), with no node.
ClusterInit ==
    /\ nodes = {}
    /\ cch = "open"
    /\ reqCh = "open"
    /\ subsArr = [a \in ChanIds |-> << >>]
    /\ subs = NilSlice
    /\ chans = [s \in ChanIds |-> "none"]
    /\ lpc = "select"
    /\ lrange = NoRange
    /\ outgoing = << >>
    /\ ingestNo = 0
    /\ kpc = "idle"
    /\ krange = NoRange
    /\ view = [s \in ChanIds |-> {}]
    /\ seen = [s \in ChanIds |-> 0]
    /\ lprev = {}
    /\ pend = [s \in ChanIds |-> "no"]
    /\ mret = NoMembers

\* A goroutine panicked: the process is gone.
ClusterDown == lpc = "panic" \/ kpc = "panic" \/ \E s \in ChanIds : pend[s] = "panic"

\* The elements of a slice.
Elems(arrs, sl) == {arrs[sl.arr][j] : j \in 1..sl.len}

\* The arrays c.subs or a range in progress refers to; the others are
\* garbage and are collected.
Live(arrs, sl, lr, kr) ==
    [a \in ChanIds |-> IF a \in {sl.arr, lr.arr, kr.arr} THEN arrs[a] ELSE << >>]

\* close(ch) of each channel of S, and the history of a subscriber whose
\* channel is closed: its stream is over.
Closed(chs, S) == [s \in ChanIds |-> IF s \in S THEN "closed" ELSE chs[s]]
Gone(hist, S, zero) == [s \in ChanIds |-> IF s \in S THEN zero ELSE hist[s]]

\* c.current(), lines 136-143
current_Empty(ns) == << >>

current(ns) == SortedSeq(ns)

\* append(c.subs, ch), line 116: in place while the capacity lasts, else into
\* a new array of twice the capacity.
AppendSub(arrs, sl, ch) ==
    LET cap == IF sl.arr = 0 THEN 0 ELSE Len(arrs[sl.arr])
    IN  IF sl.len < cap
        THEN [subsArr |-> [arrs EXCEPT ![sl.arr][sl.len + 1] = ch],
              subs |-> [sl EXCEPT !.len = sl.len + 1]]
        ELSE LET a == CHOOSE x \in ChanIds :
                          arrs[x] = << >> /\ \A y \in ChanIds : arrs[y] = << >> => x <= y
                 ncap == IF cap = 0 THEN 1 ELSE 2 * cap
                 new == [j \in 1..ncap |->
                            IF j <= sl.len THEN arrs[sl.arr][j]
                            ELSE IF j = sl.len + 1 THEN ch ELSE NoChan]
             IN  [subsArr |-> [arrs EXCEPT ![a] = new],
                  subs |-> [arr |-> a, len |-> sl.len + 1]]

\* handleReq of a chan []NodeUpdate, lines 118-128: the first element of
\* c.subs that is req is removed in place and req is closed.
\* Mutant of RemoveSub: the slice is cut by one without the shift.
RemoveSub_Truncate(arrs, sl, req) ==
    LET found == {j \in 1..sl.len : arrs[sl.arr][j] = req}
    IN  IF found = {} THEN [found |-> FALSE, subsArr |-> arrs, subs |-> sl]
        ELSE [found |-> TRUE, subsArr |-> arrs, subs |-> [sl EXCEPT !.len = sl.len - 1]]

RemoveSub(arrs, sl, req) ==
    LET found == {j \in 1..sl.len : arrs[sl.arr][j] = req}
    IN  IF found = {} THEN [found |-> FALSE, subsArr |-> arrs, subs |-> sl]
        ELSE LET i == CHOOSE j \in found : \A k \in found : j <= k
                 old == arrs[sl.arr]
                 new == [j \in 1..Len(old) |->
                            IF j >= i /\ j < sl.len THEN old[j + 1] ELSE old[j]]
             IN  [found |-> TRUE,
                  subsArr |-> [arrs EXCEPT ![sl.arr] = new],
                  subs |-> [sl EXCEPT !.len = sl.len - 1]]

\* ------------------------------------------------------------ the input owner
\* close(c.ch) by the owner of the input channel
CloseInput ==
    /\ ~ClusterDown
    /\ cch = "open"
    /\ cch' = "closed"
    /\ UNCHANGED <<nodes, reqCh, subsArr, subs, chans, lpc, lrange, outgoing,
                   ingestNo, kpc, krange, view, seen, lprev, pend>>

\* --------------------------------------------------------------------- loop
\* loop, lines 62-72: the owner's send of v on c.ch meets the select.
LoopIngest(v) ==
    /\ ~ClusterDown
    /\ lpc = "select"
    /\ cch = "open"
    /\ ingestNo < MaxIngests
    /\ LET r == IF v.kind = "updates" THEN FilterAndUpdate(nodes, v.updates)
                ELSE IF v.kind = "nodes" THEN SetAndDiff(nodes, v.nodes)
                ELSE [nodes |-> nodes, outgoing |-> << >>]
       IN  /\ nodes' = r.nodes
           /\ IF subs.len = 0
              THEN UNCHANGED <<lpc, lrange, outgoing, lprev>>
              ELSE /\ lpc' = "send"
                   /\ lrange' = [arr |-> subs.arr, len |-> subs.len, i |-> 0]
                   /\ outgoing' = r.outgoing
                   /\ lprev' = nodes
    /\ ingestNo' = ingestNo + 1
    /\ UNCHANGED <<cch, reqCh, subsArr, subs, chans, kpc, krange, view, seen, pend>>

\* loop, lines 73-75: one round of the range: sub <- outgoing.  A send on a
\* closed channel panics; a send on an open one is received by the subscriber,
\* which takes from its channel at all times (spec 5: the scheduler side is
\* buffered).
LoopSend ==
    /\ ~ClusterDown
    /\ lpc = "send"
    /\ LET sub == subsArr[lrange.arr][lrange.i + 1]
       IN  /\ IF chans[sub] = "closed"
              THEN /\ lpc' = "panic"
                   /\ UNCHANGED <<subsArr, lrange, outgoing, view, seen, lprev>>
              ELSE /\ view' = [view EXCEPT ![sub] = ApplyAll(view[sub], outgoing)]
                   /\ seen' = [seen EXCEPT ![sub] = ingestNo]
                   /\ IF lrange.i + 1 < lrange.len
                      THEN /\ lrange' = [lrange EXCEPT !.i = lrange.i + 1]
                           /\ UNCHANGED <<subsArr, lpc, outgoing, lprev>>
                      ELSE /\ lpc' = "select"
                           /\ lrange' = NoRange
                           /\ subsArr' = Live(subsArr, subs, NoRange, krange)
                           /\ outgoing' = << >>
                           /\ lprev' = {}
    /\ UNCHANGED <<nodes, cch, reqCh, subs, chans, ingestNo, kpc, krange, pend>>

\* loop, lines 62-66: c.ch is closed: c.ch = nil
LoopChClosed ==
    /\ ~ClusterDown
    /\ lpc = "select"
    /\ cch = "closed"
    /\ cch' = "nil"
    /\ UNCHANGED <<nodes, reqCh, subsArr, subs, chans, lpc, lrange, outgoing,
                   ingestNo, kpc, krange, view, seen, lprev, pend>>

\* loop, lines 94-98: c.reqCh is closed: c.reqCh = nil
LoopReqChClosed ==
    /\ ~ClusterDown
    /\ lpc = "select"
    /\ reqCh = "closed"
    /\ reqCh' = "nil"
    /\ UNCHANGED <<nodes, cch, subsArr, subs, chans, lpc, lrange, outgoing,
                   ingestNo, kpc, krange, view, seen, lprev, pend>>

\* loop, lines 60 and 102-104: done() holds: every channel of c.subs is
\* closed.  Closing a closed channel panics.
LoopExit ==
    /\ ~ClusterDown
    /\ lpc = "select"
    /\ cch = "nil" /\ reqCh = "nil"
    /\ IF \E s \in Elems(subsArr, subs) : chans[s] = "closed"
       THEN lpc' = "panic" /\ UNCHANGED <<chans, view, seen>>
       ELSE /\ lpc' = "exit"
            /\ chans' = Closed(chans, Elems(subsArr, subs))
            /\ view' = Gone(view, Elems(subsArr, subs), {})
            /\ seen' = Gone(seen, Elems(subsArr, subs), 0)
    /\ UNCHANGED <<nodes, cch, reqCh, subsArr, subs, lrange, outgoing, ingestNo,
                   kpc, krange, lprev, pend>>

\* Members(), lines 33-37, and handleReq, lines 109-111: the reply is
\* c.current(); the view is left as it is.
\* Mutant of Members: the reply is in descending order.
Members_Descending ==
    /\ ~ClusterDown
    /\ lpc = "select"
    /\ reqCh = "open"
    /\ mret' = LET c == current(nodes) IN [i \in 1..Len(c) |-> c[Len(c) + 1 - i]]
    /\ UNCHANGED <<nodes, cch, reqCh, subsArr, subs, chans, lpc, lrange, outgoing,
                   ingestNo, kpc, krange, view, seen, lprev, pend>>

Members ==
    /\ ~ClusterDown
    /\ lpc = "select"
    /\ reqCh = "open"
    /\ mret' = current(nodes)
    /\ UNCHANGED <<nodes, cch, reqCh, subsArr, subs, chans, lpc, lrange, outgoing,
                   ingestNo, kpc, krange, view, seen, lprev, pend>>

\* Subscribe(), lines 39-43, and handleReq, lines 112-117: the subscriber of
\* a new channel gets c.current() as its initial members, as Added updates.
Subscribe ==
    /\ ~ClusterDown
    /\ lpc = "select"
    /\ reqCh = "open"
    /\ \E ch \in ChanIds :
          /\ chans[ch] = "none"
          /\ \A x \in ChanIds : x < ch => chans[x] # "none"
          /\ LET cur == current(nodes)
                 r == AppendSub(subsArr, subs, ch)
             IN  /\ view' = [view EXCEPT ![ch] =
                        ApplyAll({}, [i \in 1..Len(cur) |-> Added(cur[i])])]
                 /\ seen' = [seen EXCEPT ![ch] = ingestNo]
                 /\ subsArr' = Live(r.subsArr, r.subs, lrange, krange)
                 /\ subs' = r.subs
          /\ chans' = [chans EXCEPT ![ch] = "open"]
    /\ UNCHANGED <<nodes, cch, reqCh, lpc, lrange, outgoing, ingestNo, kpc, krange,
                   lprev, pend>>

\* handleReq of the channel of subscriber s by the loop, lines 118-128
HandleUnsubscribe(s) ==
    LET r == RemoveSub(subsArr, subs, s)
    IN  /\ subsArr' = r.subsArr
        /\ subs' = r.subs
        /\ IF r.found
           THEN /\ chans' = Closed(chans, {s})
                /\ view' = Gone(view, {s}, {})
                /\ seen' = Gone(seen, {s}, 0)
           ELSE UNCHANGED <<chans, view, seen>>

\* closeSubscription(s) of a subscriber whose channel is open, lines
\* 132-134, and the handleReq that takes it at the loop's select; until then
\* the subscriber's channel is received from.
Unsubscribe(s) ==
    /\ ~ClusterDown
    /\ lpc = "select"
    /\ reqCh = "open"
    /\ chans[s] = "open"
    /\ HandleUnsubscribe(s)
    /\ UNCHANGED <<nodes, cch, reqCh, lpc, lrange, outgoing, ingestNo, kpc, krange,
                   lprev, pend>>

\* closeSubscription(s), line 133, of a subscriber whose channel is in c.subs,
\* after Close() closed c.reqCh: a send on a closed channel panics.
UnsubscribePanic(s) ==
    /\ ~ClusterDown
    /\ chans[s] = "open"
    /\ s \in Elems(subsArr, subs)
    /\ reqCh \in {"closed", "nil"}
    /\ pend' = [pend EXCEPT ![s] = "panic"]
    /\ UNCHANGED <<nodes, cch, reqCh, subsArr, subs, chans, lpc, lrange, outgoing,
                   ingestNo, kpc, krange, view, seen, lprev>>

\* -------------------------------------------------------------------- Close
\* Close(), line 46: the range over c.subs begins.
CloseBegin ==
    /\ ~ClusterDown
    /\ kpc = "idle"
    /\ IF subs.len = 0
       THEN kpc' = "setnil" /\ UNCHANGED krange
       ELSE /\ kpc' = "range"
            /\ krange' = [arr |-> subs.arr, len |-> subs.len, i |-> 0]
    /\ UNCHANGED <<nodes, cch, reqCh, subsArr, subs, chans, lpc, lrange, outgoing,
                   ingestNo, view, seen, lprev, pend>>

\* Close(), lines 46-48: one round of the range: c.handleReq(s).  Closing
\* a closed channel panics.
CloseStep ==
    /\ ~ClusterDown
    /\ kpc = "range"
    /\ LET s == subsArr[krange.arr][krange.i + 1]
           r == RemoveSub(subsArr, subs, s)
           kr == IF krange.i + 1 < krange.len
                 THEN [krange EXCEPT !.i = krange.i + 1] ELSE NoRange
       IN  IF r.found /\ chans[s] = "closed"
           THEN /\ kpc' = "panic"
                /\ subs' = r.subs
                /\ subsArr' = r.subsArr
                /\ UNCHANGED <<chans, krange, view, seen>>
           ELSE /\ subs' = r.subs
                /\ subsArr' = Live(r.subsArr, r.subs, lrange, kr)
                /\ krange' = kr
                /\ kpc' = IF kr = NoRange THEN "setnil" ELSE "range"
                /\ IF r.found
                   THEN /\ chans' = Closed(chans, {s})
                        /\ view' = Gone(view, {s}, {})
                        /\ seen' = Gone(seen, {s}, 0)
                   ELSE UNCHANGED <<chans, view, seen>>
    /\ UNCHANGED <<nodes, cch, reqCh, lpc, lrange, outgoing, ingestNo, lprev, pend>>

\* Close(), line 49: c.subs = nil
CloseSetNil ==
    /\ ~ClusterDown
    /\ kpc = "setnil"
    /\ subs' = NilSlice
    /\ subsArr' = Live(subsArr, NilSlice, lrange, krange)
    /\ kpc' = "closeReq"
    /\ UNCHANGED <<nodes, cch, reqCh, chans, lpc, lrange, outgoing, ingestNo,
                   krange, view, seen, lprev, pend>>

\* Close(), lines 50-51: close(c.reqCh).  Closing a nil or a closed channel
\* panics.
CloseReqCh ==
    /\ ~ClusterDown
    /\ kpc = "closeReq"
    /\ IF reqCh = "open"
       THEN reqCh' = "closed" /\ kpc' = "done"
       ELSE kpc' = "panic" /\ UNCHANGED reqCh
    /\ UNCHANGED <<nodes, cch, subsArr, subs, chans, lpc, lrange, outgoing,
                   ingestNo, krange, view, seen, lprev, pend>>

\* ============================================================== casServer
\* The bytestream Write of the CAS server: each stream is one call of
\* casServer.Write, which receives WriteRequests until one has finish_write
\* and then writes the buffered data to the Store.

\* The WriteRequests a stream can receive.
MaxReqs == 2

\* The streams, served concurrently.
Streams == {"w1", "w2"}

\* bazel.EmptySha and bazel.EmptySize
EmptySha == "e3b0c442"
EmptySize == 0

\* The resource names a WriteRequest can carry: two uploads of blob A, an
\* upload of blob B, an upload of the empty blob, a name that does not parse,
\* and no name.
ResourceNames ==
    {"", "uploads/u1/blobs/A/2", "uploads/u2/blobs/A/2", "uploads/u1/blobs/B/1",
     "uploads/u1/blobs/e3b0c442/0", "blobs/A"}

\* resource == nil, and the resource of a name that does not parse.
NoResource == [hash |-> "nil", size |-> 0]
ParseError == [hash |-> "error", size |-> 0]

\* ParseWriteResource(resourceName): the digest (hash and size) of the name.
ParseWriteResource(name) ==
    CASE name \in {"uploads/u1/blobs/A/2", "uploads/u2/blobs/A/2"} -> [hash |-> "A", size |-> 2]
      [] name = "uploads/u1/blobs/B/1" -> [hash |-> "B", size |-> 1]
      [] name = "uploads/u1/blobs/e3b0c442/0" -> [hash |-> EmptySha, size |-> EmptySize]
      [] OTHER -> ParseError

\* bazel.DigestStoreName(digest)
DigestStoreName(digest) == <<"blob", digest.hash>>

\* bytestream.WriteRequest: resource_name, write_offset, the length of data,
\* finish_write.
WriteRequests ==
    [name : ResourceNames, offset : {0, 1}, len : {0, 1, 2}, finish : BOOLEAN]

\* What Write returns: the status code and which return statement it was.
NoStatus == [code |-> "", at |-> ""]
Status(code, at) == [code |-> code, at |-> at]

VARIABLES
    storeConfig,    \* s.storeConfig: "unmade", "nil" or "cfg"
    casStore,       \* the names s.storeConfig.Store holds
    wpc,            \* per stream: "idle", "recv" (line 224), "commit" (line 292), "done"
    resource,       \* per stream: resource
    resourceName,   \* per stream: resourceName
    buffer,         \* per stream: buffer.Len()
    nrecv,          \* history, per stream: the WriteRequests received
    wret,           \* per stream: what Write returned
    storeWrites     \* history, per stream: its calls of Store.Write

casVars ==
    <<storeConfig, casStore, wpc, resource, resourceName, buffer, nrecv, wret,
      storeWrites>>

CasInit ==
    /\ storeConfig = "unmade"
    /\ casStore = {}
    /\ wpc = [w \in Streams |-> "idle"]
    /\ resource = [w \in Streams |-> NoResource]
    /\ resourceName = [w \in Streams |-> ""]
    /\ buffer = [w \in Streams |-> 0]
    /\ nrecv = [w \in Streams |-> 0]
    /\ wret = [w \in Streams |-> NoStatus]
    /\ storeWrites = [w \in Streams |-> 0]

\* MakeCASServer(l, cfg), lines 37-47: cfg is a store config or nil.
MakeCASServer(cfg) ==
    /\ storeConfig = "unmade"
    /\ storeConfig' = cfg
    /\ UNCHANGED <<casStore, wpc, resource, resourceName, buffer, nrecv, wret, storeWrites>>

\* casServer.IsInitialized, lines 49-56
CasIsInitialized == storeConfig # "nil"

\* A return of Write: the stream is over and its locals are gone.
WriteReturn(w, st) ==
    /\ wpc' = [wpc EXCEPT ![w] = "done"]
    /\ wret' = [wret EXCEPT ![w] = st]
    /\ resource' = [resource EXCEPT ![w] = NoResource]
    /\ resourceName' = [resourceName EXCEPT ![w] = ""]
    /\ buffer' = [buffer EXCEPT ![w] = 0]

\* Write, lines 208-220: the call, up to the loop.
WriteCall(w) ==
    /\ storeConfig # "unmade"
    /\ wpc[w] = "idle"
    /\ IF ~CasIsInitialized
       THEN WriteReturn(w, Status("Internal", "Server not initialized"))
       ELSE /\ wpc' = [wpc EXCEPT ![w] = "recv"]
            /\ UNCHANGED <<resource, resourceName, buffer, wret>>
    /\ UNCHANGED <<storeConfig, casStore, nrecv, storeWrites>>

\* Write, lines 224-228: ser.Recv() fails.
WriteRecvFail(w) ==
    /\ wpc[w] = "recv"
    /\ WriteReturn(w, Status("Internal", "Failed to Recv"))
    /\ UNCHANGED <<storeConfig, casStore, nrecv, storeWrites>>

\* Write, lines 224-289: one round of the loop with the WriteRequest wr;
\* existsOk and sendOk say whether Store.Exists and ser.SendAndClose work.
WriteRecv(w, wr, existsOk, sendOk) ==
    /\ wpc[w] = "recv"
    /\ nrecv[w] < MaxReqs
    /\ nrecv' = [nrecv EXCEPT ![w] = @ + 1]
    /\ LET first == resource[w] = NoResource
           name == IF first THEN wr.name ELSE resourceName[w]
           res == IF first THEN ParseWriteResource(wr.name) ELSE resource[w]
       IN  IF first /\ res = ParseError
           THEN WriteReturn(w, Status("InvalidArgument", "Error parsing resource"))
           ELSE IF first /\ res.hash = EmptySha
           THEN WriteReturn(w, IF sendOk THEN Status("OK", "EmptySha")
                               ELSE Status("Internal", "Failed to SendAndClose"))
           ELSE IF first /\ ~existsOk
           THEN WriteReturn(w, Status("Internal", "Store failed checking existence"))
           ELSE IF first /\ DigestStoreName(res) \in casStore
           THEN WriteReturn(w, IF sendOk THEN Status("OK", "Resource exists")
                               ELSE Status("Internal", "Failed to SendAndClose"))
           ELSE IF wr.name # "" /\ name # wr.name
           THEN WriteReturn(w, Status("InvalidArgument", "ResourceName mismatch"))
           ELSE IF wr.offset > 0
           THEN WriteReturn(w, Status("Unimplemented", "Writes are not resumable"))
           ELSE /\ resource' = [resource EXCEPT ![w] = res]
                /\ resourceName' = [resourceName EXCEPT ![w] = name]
                /\ buffer' = [buffer EXCEPT ![w] = @ + wr.len]
                /\ wpc' = [wpc EXCEPT ![w] = IF wr.finish THEN "commit" ELSE "recv"]
                /\ UNCHANGED wret
    /\ UNCHANGED <<storeConfig, casStore, storeWrites>>

\* Write, lines 291-321: the length check, Store.Write and the response;
\* writeOk and sendOk say whether Store.Write and ser.SendAndClose work.
\* Mutant of WriteCommit: the buffer goes to the Store whatever its length.
WriteCommit_NoLengthCheck(w, writeOk, sendOk) ==
    /\ wpc[w] = "commit"
    /\ storeWrites' = [storeWrites EXCEPT ![w] = @ + 1]
    /\ casStore' = IF writeOk THEN casStore \cup {DigestStoreName(resource[w])}
                   ELSE casStore
    /\ WriteReturn(w, IF ~writeOk THEN Status("Internal", "Store failed writing")
                      ELSE IF sendOk THEN Status("OK", "Finished")
                      ELSE Status("Internal", "Failed to SendAndClose"))
    /\ UNCHANGED <<storeConfig, nrecv>>

WriteCommit(w, writeOk, sendOk) ==
    /\ wpc[w] = "commit"
    /\ IF buffer[w] # resource[w].size
       THEN /\ WriteReturn(w, Status("Internal", "Data length/digest mismatch"))
            /\ UNCHANGED <<casStore, storeWrites>>
       ELSE /\ storeWrites' = [storeWrites EXCEPT ![w] = @ + 1]
            /\ casStore' = IF writeOk THEN casStore \cup {DigestStoreName(resource[w])}
                           ELSE casStore
            /\ WriteReturn(w, IF ~writeOk THEN Status("Internal", "Store failed writing")
                              ELSE IF sendOk THEN Status("OK", "Finished")
                              ELSE Status("Internal", "Failed to SendAndClose"))
    /\ UNCHANGED <<storeConfig, nrecv>>

\* The steps of the saga log; they leave the other components alone.
SagaNext ==
    \/ \E p \in Procs, msg \in LoggedMessages :
          LogMessageLock(p, msg) /\ UNCHANGED <<handlerVars, execVars, clusterVars, casVars>>
    \/ \E p \in Procs : LogMessage(p) /\ UNCHANGED <<handlerVars, execVars, clusterVars, casVars>>
    \/ \E p \in Procs, sagaId \in JobIds, job \in Jobs :
          StartSagaLock(p, sagaId, job) /\ UNCHANGED <<handlerVars, execVars, clusterVars, casVars>>
    \/ \E p \in Procs : StartSaga(p) /\ UNCHANGED <<handlerVars, execVars, clusterVars, casVars>>
    \/ \E p \in Procs, sagaId \in JobIds : GetMessagesRLock(p, sagaId) /\ UNCHANGED <<handlerVars, execVars, clusterVars, casVars>>
    \/ \E p \in Procs : GetMessages(p) /\ UNCHANGED <<handlerVars, execVars, clusterVars, casVars>>

HandlerNext ==
    \/ \E p \in HProcs, argv \in Argvs : RunCall(p, argv) /\ UNCHANGED <<sagaVars, execVars, clusterVars, casVars>>
    \/ \E p \in HProcs : RunRunner(p) /\ UNCHANGED <<sagaVars, execVars, clusterVars, casVars>>
    \/ \E p \in HProcs : RunDupCheck(p) /\ UNCHANGED <<sagaVars, execVars, clusterVars, casVars>>
    \/ \E p \in HProcs : RunDupStatus(p) /\ UNCHANGED <<sagaVars, execVars, clusterVars, casVars>>
    \/ \E p \in HProcs : RunSetCmd(p) /\ UNCHANGED <<sagaVars, execVars, clusterVars, casVars>>
    \/ \E p \in HProcs : RunSetRunID(p) /\ UNCHANGED <<sagaVars, execVars, clusterVars, casVars>>
    \/ \E p \in HProcs, runId \in RunIDs : Abort(p, runId) /\ UNCHANGED <<sagaVars, execVars, clusterVars, casVars>>
    \/ \E p \in HProcs, runId \in RunIDs : Erase(p, runId) /\ UNCHANGED <<sagaVars, execVars, clusterVars, casVars>>
    \/ \E p \in HProcs, ok \in BOOLEAN : QueryWorker(p, ok) /\ UNCHANGED <<sagaVars, execVars, clusterVars, casVars>>
    \/ \E i \in RunIDs : RunnerFinish(i, "COMPLETE") /\ UNCHANGED <<sagaVars, execVars, clusterVars, casVars>>
    \/ StatsTick /\ UNCHANGED <<sagaVars, execVars, clusterVars, casVars>>
    \/ \E ok \in BOOLEAN : StatsSample(ok) /\ UNCHANGED <<sagaVars, execVars, clusterVars, casVars>>

ExecNext ==
    \/ \E s \in {"nil", "set"} : MakeExecutionServer(s) /\ UNCHANGED <<sagaVars, handlerVars, clusterVars, casVars>>
    \/ \E p \in EProcs, req \in ExecRequests, shaOk \in BOOLEAN :
          ExecuteCall(p, req, shaOk) /\ UNCHANGED <<sagaVars, handlerVars, clusterVars, casVars>>
    \/ \E p \in EProcs : ExecuteConvert(p) /\ UNCHANGED <<sagaVars, handlerVars, clusterVars, casVars>>
    \/ \E p \in EProcs : ExecuteValidate(p) /\ UNCHANGED <<sagaVars, handlerVars, clusterVars, casVars>>
    \/ \E p \in EProcs, ok \in BOOLEAN :
          ExecuteSchedule(p, ok) /\ UNCHANGED <<sagaVars, handlerVars, clusterVars, casVars>>

ClusterNext ==
    \/ CloseInput /\ mret' = NoMembers /\ UNCHANGED <<sagaVars, handlerVars, execVars, casVars>>
    \/ \E v \in Ingests : LoopIngest(v) /\ mret' = NoMembers /\ UNCHANGED <<sagaVars, handlerVars, execVars, casVars>>
    \/ LoopSend /\ mret' = NoMembers /\ UNCHANGED <<sagaVars, handlerVars, execVars, casVars>>
    \/ LoopChClosed /\ mret' = NoMembers /\ UNCHANGED <<sagaVars, handlerVars, execVars, casVars>>
    \/ LoopReqChClosed /\ mret' = NoMembers /\ UNCHANGED <<sagaVars, handlerVars, execVars, casVars>>
    \/ LoopExit /\ mret' = NoMembers /\ UNCHANGED <<sagaVars, handlerVars, execVars, casVars>>
    \/ Members /\ UNCHANGED <<sagaVars, handlerVars, execVars, casVars>>
    \/ Subscribe /\ mret' = NoMembers /\ UNCHANGED <<sagaVars, handlerVars, execVars, casVars>>
    \/ \E s \in ChanIds : Unsubscribe(s) /\ mret' = NoMembers /\ UNCHANGED <<sagaVars, handlerVars, execVars, casVars>>
    \/ \E s \in ChanIds : UnsubscribePanic(s) /\ mret' = NoMembers /\ UNCHANGED <<sagaVars, handlerVars, execVars, casVars>>
    \/ CloseBegin /\ mret' = NoMembers /\ UNCHANGED <<sagaVars, handlerVars, execVars, casVars>>
    \/ CloseStep /\ mret' = NoMembers /\ UNCHANGED <<sagaVars, handlerVars, execVars, casVars>>
    \/ CloseSetNil /\ mret' = NoMembers /\ UNCHANGED <<sagaVars, handlerVars, execVars, casVars>>
    \/ CloseReqCh /\ mret' = NoMembers /\ UNCHANGED <<sagaVars, handlerVars, execVars, casVars>>

CasNext ==
    \/ \E cfg \in {"cfg", "nil"} :
          MakeCASServer(cfg) /\ UNCHANGED <<sagaVars, handlerVars, execVars, clusterVars>>
    \/ \E w \in Streams : WriteCall(w) /\ UNCHANGED <<sagaVars, handlerVars, execVars, clusterVars>>
    \/ \E w \in Streams : WriteRecvFail(w) /\ UNCHANGED <<sagaVars, handlerVars, execVars, clusterVars>>
    \/ \E w \in Streams, wr \in WriteRequests, existsOk \in BOOLEAN, sendOk \in BOOLEAN :
          WriteRecv(w, wr, existsOk, sendOk)
          /\ UNCHANGED <<sagaVars, handlerVars, execVars, clusterVars>>
    \/ \E w \in Streams, writeOk \in BOOLEAN, sendOk \in BOOLEAN :
          WriteCommit(w, writeOk, sendOk)
          /\ UNCHANGED <<sagaVars, handlerVars, execVars, clusterVars>>

\* ----------------------------------------------------------- specifications
vars == <<sagaVars, handlerVars, execVars, clusterVars, casVars>>

\* Every component as constructed.
Init == SagaInit /\ HandlerInit /\ ExecInit /\ ClusterInit /\ CasInit

SagaSpec == Init /\ [][SagaNext]_vars

HandlerSpec == Init /\ [][HandlerNext]_vars

ExecSpec == Init /\ [][ExecNext]_vars

ClusterSpec == Init /\ [][ClusterNext]_vars

CasSpec == Init /\ [][CasNext]_vars

\* ------------------------------------------------------------------ claims
\* A goroutine is inside a write-locked section.
InWriteSection(p) == pc[p] \in {"LogMessage", "StartSaga"}

\* The step in which goroutine p returns from operation op.
Returns(p, op) == pc[p] = op /\ pc'[p] = "idle"

\* StartSaga never returned ok for sagaId.
NeverStarted(sagaId) == okLog[sagaId] = << >>

\* The indices of msgs holding a message of the given type (and task).
IdxOfType(msgs, type) == {i \in 1..Len(msgs) : msgs[i].msgType = type}
IdxOfTask(msgs, type, t) ==
    {i \in 1..Len(msgs) : msgs[i].msgType = type /\ msgs[i].taskId = t}

\* C1: LogMessage releases the lock on every exit path: the mutex is
\* write-locked only while some goroutine is between the Lock and the return
\* of StartSaga or LogMessage, so a returned call never leaves it locked and
\* no later caller blocks forever.
C1_LockReleasedOnEveryExit ==
    mutex.w => \E p \in Procs : InWriteSection(p)

\* C2: in every reachable state every saga of the log has a non-empty
\* message sequence whose first message is the StartSaga message of its
\* sagaId.
C2_FirstMessageIsStartSaga ==
    \A j \in DOMAIN sagas :
        /\ Len(sagas[j]) >= 1
        /\ sagas[j][1] = StartSagaMessageFactory(j, sagas[j][1].data)

\* C2 witness: a saga that was started, and then appended to by LogMessage.
C2_Witness ==
    \E j \in DOMAIN sagas :
        /\ Len(sagas[j]) >= 2
        /\ sagas[j][1].msgType = "StartSaga"
        /\ sagas[j][2].msgType \in LoggedMsgTypes

\* C3: once a saga holds an EndSaga message, every LogMessage for it is
\* rejected and leaves the sequence unchanged.
C3_NoAppendAfterEndSaga ==
    [][\A p \in Procs :
          (/\ Returns(p, "LogMessage")
           /\ arg[p].sagaId \in DOMAIN sagas
           /\ IdxOfType(sagas[arg[p].sagaId], "EndSaga") # {})
          => (/\ ret'[p].err # Nil
              /\ sagas'[arg[p].sagaId] = sagas[arg[p].sagaId])]_sagaVars

\* C4: for every saga and task id t the sequence holds at least as many
\* StartTask(t) as EndTask(t) messages, and at most one EndTask(t).
C4_EndTaskNeedsStartTask ==
    \A j \in DOMAIN sagas : \A t \in TaskIds :
        /\ Cardinality(IdxOfTask(sagas[j], "StartTask", t))
              >= Cardinality(IdxOfTask(sagas[j], "EndTask", t))
        /\ Cardinality(IdxOfTask(sagas[j], "EndTask", t)) <= 1

\* C5: every message that follows an AbortSaga message in a saga is a
\* StartCompTask, an EndCompTask or an EndSaga; no StartTask follows it.
C5_OnlyCompensationAfterAbort ==
    \A j \in DOMAIN sagas : \A i, k \in 1..Len(sagas[j]) :
        (i < k /\ sagas[j][i].msgType = "AbortSaga")
        => sagas[j][k].msgType \in {"StartCompTask", "EndCompTask", "EndSaga"}

\* C6: a LogMessage for a sagaId on which StartSaga was never called returns
\* an error, creates no entry for that sagaId and leaves every saga's
\* sequence unchanged.
C6_LogMessageNotStarted ==
    [][\A p \in Procs :
          (Returns(p, "LogMessage") /\ NeverStarted(arg[p].sagaId))
          => (/\ ret'[p].op = "LogMessage"
              /\ ret'[p].err = ErrNotStarted
              /\ arg[p].sagaId \notin DOMAIN sagas'
              /\ sagas' = sagas)]_sagaVars

\* C6 witness: a LogMessage returned the error for a sagaId that was never
\* started while another saga holds messages.
C6_Witness ==
    \E p \in Procs :
        /\ pc[p] = "idle"
        /\ ret[p].op = "LogMessage"
        /\ ret[p].err = ErrNotStarted
        /\ NeverStarted(ret[p].sagaId)
        /\ ret[p].sagaId \notin DOMAIN sagas
        /\ \E j \in DOMAIN sagas : Len(sagas[j]) >= 2

\* C7: StartSaga on a saga that exists with the same job blob returns ok
\* and leaves that saga's message sequence unchanged.
C7_StartSagaIdempotent ==
    [][\A p \in Procs :
          (/\ Returns(p, "StartSaga")
           /\ arg[p].sagaId \in DOMAIN sagas
           /\ sagas[arg[p].sagaId][1].data = arg[p].data)
          => (/\ ret'[p].err = Nil
              /\ sagas'[arg[p].sagaId] = sagas[arg[p].sagaId])]_sagaVars

\* C8: StartSaga on a saga that exists with a different job blob returns an
\* error (AlreadyStarted) and leaves that saga's message sequence unchanged.
C8_StartSagaAlreadyStarted ==
    [][\A p \in Procs :
          (/\ Returns(p, "StartSaga")
           /\ arg[p].sagaId \in DOMAIN sagas
           /\ sagas[arg[p].sagaId][1].data # arg[p].data)
          => (/\ ret'[p].err # Nil
              /\ sagas'[arg[p].sagaId] = sagas[arg[p].sagaId])]_sagaVars

\* C9: for every saga, what GetMessages returns is exactly the messages
\* whose append (StartSaga, then each LogMessage) returned ok, in the order
\* in which they returned ok.
C9_GetMessagesIsAppendOrder ==
    \A j \in JobIds :
        ~NeverStarted(j) => GetMessagesResult(sagas, j).msgs = okLog[j]

\* C10: a GetMessages for a sagaId that has no saga in the log returns an
\* error (NotFound).
C10_GetMessagesNotFound ==
    \A p \in Procs :
        (/\ pc[p] = "idle"
         /\ ret[p].op = "GetMessages"
         /\ NeverStarted(ret[p].sagaId))
        => ret[p].err # Nil

\* C11: appends to different sagaIds do not interfere: every saga holds only
\* messages addressed to it, an append (StartSaga or LogMessage) for one
\* sagaId leaves the entry of every other sagaId as it was, and a LogMessage
\* that returns ok puts its message at the end of its own saga's sequence.
C11_DisjointSagasIsolated ==
    [][/\ \A j \in DOMAIN sagas' : \A i \in 1..Len(sagas'[j]) : sagas'[j][i].sagaId = j
       /\ \A p \in Procs :
            (Returns(p, "LogMessage") \/ Returns(p, "StartSaga"))
            => \A k \in JobIds \ {arg[p].sagaId} :
                  /\ k \in DOMAIN sagas <=> k \in DOMAIN sagas'
                  /\ k \in DOMAIN sagas => sagas'[k] = sagas[k]
       /\ \A p \in Procs :
            (Returns(p, "LogMessage") /\ ret'[p].err = Nil)
            => sagas'[arg[p].sagaId] = Append(sagas[arg[p].sagaId], arg[p])]_sagaVars

\* C11 witness: the two goroutines' last calls were appends that returned ok
\* for two different sagas, both of which are in the log.
C11_Witness ==
    \E p, q \in Procs :
        /\ ret[p].op = "LogMessage" /\ ret[p].err = Nil
        /\ ret[q].op \in {"LogMessage", "StartSaga"} /\ ret[q].err = Nil
        /\ ret[p].sagaId # ret[q].sagaId
        /\ {ret[p].sagaId, ret[q].sagaId} \subseteq DOMAIN sagas
        /\ Len(sagas[ret[p].sagaId]) >= 2

\* The runner answered the Run in progress of goroutine p with QueueFull
\* while a run with the same argv (same = TRUE) or another argv was active.
QueueFullFor(p, same) ==
    /\ hpc[p] \in {"Run_dup", "Run_status", "Run_set", "Run_setid"}
    /\ hqf[p].runID # NoRunID
    /\ (hqf[p].argv = hcmd[p]) = same

\* The step in which the Run of goroutine p returns.
RunReturns(p) == hpc[p] \in {"Run_set", "Run_setid"} /\ hpc'[p] = "idle"

\* C12: a Run whose argv equals the argv of the run that is active (the
\* runner answered QueueFull) does not fail: it returns the status of that
\* run, not a BADREQUEST status, and the QueueFull answer started no run.
C12_DupRetryReturnsActiveRun ==
    [][\A p \in HProcs :
          /\ QueueFullFor(p, TRUE)
             => /\ hpc'[p] # "panic"
                /\ RunReturns(p)
                   => /\ hret'.status.runID = hqf[p].runID
                      /\ hret'.status.state # "BADREQUEST"
          /\ (hpc[p] = "Run_body" /\ herr'[p] = QueueFullMsg) => runs' = runs]_vars

\* C13: h.mu is locked only while the stats goroutine is between its Lock
\* and its Unlock: sampling always releases the mutex, so no RPC waits for
\* it forever in updateTimeLastRpc.
C13_StatsReleasesMutex ==
    hmu => spc = "sample"

\* C14: a Run whose argv differs from the argv of the run that is active
\* (the runner answered QueueFull) starts no run and returns a BADREQUEST
\* status carrying the QueueFull text, leaving currentCmd and currentRunID
\* as they were; at most one run is active.
C14_QueueFullForOtherArgv ==
    [][/\ \A p \in HProcs :
            QueueFullFor(p, FALSE)
            => /\ hpc'[p] # "panic"
               /\ RunReturns(p)
                  => /\ hret'.status.state = "BADREQUEST"
                     /\ hret'.status.error = QueueFullMsg
                     /\ currentCmd' = currentCmd
                     /\ currentRunID' = currentRunID
       /\ Cardinality({i \in 1..Len(runs') : runs'[i].state = "RUNNING"}) <= 1]_vars

\* A request that validateExecRequest and sched.ValidateJob accept: an
\* Action with a valid command digest, a valid input root digest and a
\* timeout that is not negative.
AcceptableRequest(req) ==
    /\ req # NilReq
    /\ req.cmdOk
    /\ req.inputOk
    /\ req.timeout >= 0

\* C19: ScheduleJob is called only with a job made from a request that
\* passed execReqToScoot and sched.ValidateJob, and an Execute that returns
\* the conversion error or the invalid-job error has made no ScheduleJob
\* call.
C19_ValidationBeforeSchedule ==
    [][/\ \A i \in 1..Len(schedCalls') :
             /\ AcceptableRequest(schedCalls'[i].req)
             /\ Len(schedCalls'[i].job.tasks) = 1
             /\ schedCalls'[i].job.tasks[1].timeout = schedCalls'[i].req.timeout
       /\ \A p \in EProcs :
             (epc[p] # "idle" /\ epc'[p] = "idle"
              /\ eret'[p].err \in {ErrConverting, ErrJobInvalid})
             => schedCalls' = schedCalls
       /\ schedCalls' # schedCalls
          => \E p \in EProcs : /\ epc[p] = "schedule"
                               /\ schedCalls' = Append(schedCalls, [req |-> ereq[p], job |-> ejob[p]])]_vars

\* An Execute was rejected by the request validation, another by the job
\* validation, and the scheduler was called for an accepted one.
C19_Witness ==
    /\ Len(schedCalls) >= 1
    /\ \E p, q \in EProcs : /\ eret[p].err = ErrConverting
                            /\ eret[q].err = ErrJobInvalid

\* The subscriber channels c.subs holds.
Registered == Elems(subsArr, subs)

\* The step in which the loop hands the delta of the ingest to subscriber s.
DeliversTo(s) ==
    /\ lpc = "send"
    /\ lrange' # lrange
    /\ subsArr[lrange.arr][lrange.i + 1] = s

\* The step in which the loop ends the range that sends out a delta.
EndsDelivery == lpc = "send" /\ lpc' = "select"

\* C15: while Close has not been called, under ingests, Subscribe and
\* unsubscribe requests: a subscriber's initial members are the membership
\* at its Subscribe; every delta it receives is the delta of the ingest next
\* after the one its stream is at and takes its folded view from the
\* membership before that ingest to the membership after it; and whenever
\* the loop is back at its select every registered subscriber's folded view
\* is the membership.
C15_SnapshotThenDeltasInOrder ==
    [][kpc' = "idle"
       => /\ \A s \in ChanIds :
                /\ (chans[s] = "none" /\ chans'[s] = "open")
                   => view'[s] = nodes' /\ seen'[s] = ingestNo'
                /\ DeliversTo(s)
                   => /\ seen[s] + 1 = ingestNo
                      /\ view[s] = lprev
                      /\ view'[s] = nodes
                      /\ seen'[s] = ingestNo
                /\ (chans[s] = "open" /\ chans'[s] = "open" /\ ~DeliversTo(s))
                   => view'[s] = view[s] /\ seen'[s] = seen[s]
          /\ lpc' = "select"
             => \A s \in Elems(subsArr', subs') :
                   view'[s] = nodes' /\ seen'[s] = ingestNo']_vars

\* Close was not called, the second ingest changed the membership, and the
\* first subscriber of the range has received its delta.
C15_Witness ==
    /\ kpc = "idle"
    /\ lpc = "send"
    /\ lrange.i = 1
    /\ ingestNo = 2
    /\ nodes # lprev
    /\ nodes # {}
    /\ LET s == subsArr[lrange.arr][1]
       IN  view[s] = nodes /\ seen[s] = 2 /\ \E t \in ChanIds : chans[t] = "closed"

\* C16: the delta of an ingest goes to every registered subscriber in
\* registration order: when a subscriber receives it every registered
\* subscriber that subscribed earlier has it, and when the loop ends the
\* range every registered subscriber has it.
C16_DeltaToEverySubscriberInOrder ==
    [][/\ \A s \in ChanIds :
             DeliversTo(s) => \A t \in Registered : t < s => seen[t] = ingestNo
       /\ EndsDelivery => \A s \in Elems(subsArr', subs') : seen'[s] = ingestNo']_vars

\* C17: once the loop has seen the input channel closed and is back at its
\* select, with Close not called, every registered subscriber channel is
\* closed.
C17_InputCloseClosesSubscribers ==
    (cch = "nil" /\ lpc = "select" /\ kpc = "idle")
    => \A s \in Registered : chans[s] = "closed"

\* C18: a subscriber receives the deltas in ingest order, each once: every
\* delta it receives is the delta of the ingest next after the one its
\* stream is at, and no registered subscriber is left behind when the loop
\* ends the range.
C18_DeltasInIngestOrderOnce ==
    [][/\ \A s \in ChanIds : DeliversTo(s) => seen[s] + 1 = ingestNo
       /\ EndsDelivery => \A s \in Elems(subsArr', subs') : seen'[s] = ingestNo']_vars

\* C20: no goroutine panics on a send to a closed subscriber channel or on
\* the second close of one, and only the loop goroutine reads or writes
\* c.subs: no step of Close but its close(c.reqCh) touches it.
C20_SubscriberChannelsSafe ==
    [][/\ lpc' # "panic"
       /\ kpc' # "panic"
       /\ kpc' # kpc => kpc = "closeReq"]_vars

\* C21: whenever a Run takes the duplicate-retry path (line 272) the
\* handler's currentCmd and currentRunID describe the run that made the
\* runner answer QueueFull, and the status read is the status of that run.
C21_DupRetryReadsActiveRun ==
    [][\A p \in HProcs :
          (hpc[p] = "Run_status" /\ hpc'[p] = "Run_set")
          => /\ currentRunID = hqf[p].runID
             /\ currentCmd = hqf[p].argv
             /\ hstatus'[p].runID = hqf[p].runID]_vars

\* C22: when Run evaluates the duplicate check of line 270 after the runner
\* answered QueueFull, currentCmd is set.
C22_QueueFullImpliesCmdSet ==
    \A p \in HProcs :
       (hpc[p] = "Run_dup" /\ herr[p] = QueueFullMsg) => currentCmd # NilCmd

\* C23: an unsubscribe request of a registered subscriber completes: its
\* send on c.reqCh never panics.
C23_UnsubscribeCompletes ==
    \A s \in ChanIds : pend[s] # "panic"

\* c.subs as the sequence of its elements.
SubsSeq(arrs, sl) == [j \in 1..sl.len |-> arrs[sl.arr][j]]

\* seq without its first element equal to x.
RemoveFirst(seq, x) ==
    LET i == CHOOSE j \in 1..Len(seq) : seq[j] = x /\ \A k \in 1..(j - 1) : seq[k] # x
    IN  SubSeq(seq, 1, i - 1) \o SubSeq(seq, i + 1, Len(seq))

\* A step in which handleReq closes the channel of subscriber s.
HandlesUnsubscribe(s) ==
    chans[s] = "open" /\ chans'[s] = "closed" /\ lpc' \notin {"exit", "panic"}

\* C24: a handleReq that closes subscriber s found s in c.subs and leaves
\* c.subs without its first s, the other elements in their order; no other
\* channel is closed and no other subscriber's stream is touched; every later
\* ingest ranges over all of c.subs.  A request for a channel that is not in
\* c.subs leaves c.subs as it is and reports nothing to close.
C24_UnsubscribeRemovesOnlyRequester ==
    /\ [][/\ \A s \in ChanIds :
                HandlesUnsubscribe(s)
                => /\ s \in Elems(subsArr, subs)
                   /\ SubsSeq(subsArr', subs') = RemoveFirst(SubsSeq(subsArr, subs), s)
                   /\ \A t \in ChanIds \ {s} :
                         chans'[t] = chans[t] /\ view'[t] = view[t] /\ seen'[t] = seen[t]
          /\ (ingestNo' # ingestNo /\ subs.len > 0)
                => /\ lpc' = "send"
                   /\ lrange' = [arr |-> subs.arr, len |-> subs.len, i |-> 0]]_vars
    /\ [](\A s \in ChanIds :
             s \notin Elems(subsArr, subs)
             => RemoveSub(subsArr, subs, s) = [found |-> FALSE, subsArr |-> subsArr, subs |-> subs])

\* C24 witness: of three subscribers the second was unsubscribed by the loop,
\* and the delta of a later ingest is being sent to the first and the third,
\* in that order.
C24_Witness ==
    /\ kpc = "idle"
    /\ chans = <<"open", "closed", "open">>
    /\ SubsSeq(subsArr, subs) = <<1, 3>>
    /\ lpc = "send"
    /\ lrange.len = 2
    /\ lrange.i = 1
    /\ seen[1] = ingestNo
\* The membership S after the batch us: a node the batch names is a member
\* iff the last update that names it is an Added.
MembersAfter(S, us) ==
    {n \in NodeIds :
        LET ks == {k \in 1..Len(us) : us[k].id = n}
        IN  IF ks = {} THEN n \in S
            ELSE us[CHOOSE k \in ks : \A j \in ks : j <= k].type = "Added"}

\* The k-th update of us changes the membership it meets: an Added of an
\* absent node or a Removed of a present one.
ChangesMembership(S, us, k) ==
    LET before == MembersAfter(S, SubSeq(us, 1, k - 1))
    IN  (us[k].type = "Added") <=> (us[k].id \notin before)

\* The updates of us that change the membership, in the order of us.
ChangingUpdates(S, us) ==
    LET ks == SortedSeq({k \in 1..Len(us) : ChangesMembership(S, us, k)})
    IN  [i \in 1..Len(ks) |-> us[ks[i]]]

C26_MembersReturnsSortedMembership ==
    [][mret' # NoMembers
       => /\ Len(mret') = Cardinality(nodes)
          /\ {mret'[i] : i \in 1..Len(mret')} = nodes
          /\ \A i \in 1..Len(mret'), j \in 1..Len(mret') : i < j => mret'[i] < mret'[j]
          /\ kpc = "idle" => \A s \in Elems(subsArr, subs) : view[s] = nodes
          /\ nodes' = nodes
          /\ ingestNo' = ingestNo
          /\ subs' = subs
          /\ subsArr' = subsArr
          /\ chans' = chans
          /\ view' = view
          /\ seen' = seen]_vars

\* C26 witness: after the last ingest, with a subscriber registered and two
\* nodes in the membership, Members() returned both in order.
C26_Witness ==
    /\ mret = <<1, 2>>
    /\ nodes = {1, 2}
    /\ ingestNo = MaxIngests
    /\ subs.len > 0
\* C27: every value the loop receives on c.ch is sent on, as one message, to
\* each registered subscriber, whatever its delta: the range begins with the
\* ingest when there is a subscriber, no subscriber gets the message of an
\* ingest it already has, and when the range ends every registered
\* subscriber has it.
C27_OneMessagePerSubscriberPerIngest ==
    [][/\ (ingestNo' # ingestNo /\ subs.len > 0) => lpc' = "send"
       /\ \A s \in ChanIds : DeliversTo(s) => seen[s] < ingestNo
       /\ EndsDelivery => \A s \in Registered' : seen'[s] = ingestNo']_vars
\* C28: a Write stream calls Store.Write at most once; every call is made
\* after the request with finish_write, with as many bytes buffered as the
\* digest of the stream's resource says, for a resource that is not the
\* empty digest; and a stream that returned for the empty digest, for a
\* resource that exists, for a changed resource name, for a write offset
\* above 0 or for a length mismatch has made no call.
C28_StoreWrittenAtMostOnce ==
    /\ [](\A w \in Streams :
             /\ storeWrites[w] <= 1
             /\ wret[w].at \in {"EmptySha", "Resource exists", "ResourceName mismatch",
                                "Writes are not resumable", "Data length/digest mismatch"}
                => storeWrites[w] = 0
             /\ (resource[w] # NoResource /\ resource[w].hash = EmptySha)
                => storeWrites[w] = 0)
    /\ [][/\ \A w \in Streams :
                /\ storeWrites'[w] # storeWrites[w]
                   => /\ wpc[w] = "commit"
                      /\ buffer[w] = resource[w].size
                      /\ resource[w].hash # EmptySha
                      /\ casStore' \subseteq casStore \cup {DigestStoreName(resource[w])}
                /\ (wpc[w] # "commit" /\ wpc'[w] = "commit")
                   => wpc[w] = "recv" /\ nrecv'[w] = nrecv[w] + 1
          /\ casStore' # casStore
             => \E w \in Streams : storeWrites'[w] = storeWrites[w] + 1]_vars

\* C28 witness: one stream took blob A in two requests and wrote it to the
\* Store, and the other stream, for the same blob, found it there.
C28_Witness ==
    /\ wret["w1"] = Status("OK", "Finished")
    /\ nrecv["w1"] = 2
    /\ storeWrites["w1"] = 1
    /\ wret["w2"] = Status("OK", "Resource exists")
    /\ storeWrites["w2"] = 0
    /\ casStore = {DigestStoreName([hash |-> "A", size |-> 2])}
====
